---- MODULE Spec2Model ----
(***************************************************************************)
(* The CPython build pipeline of .cid/: the generic entry point build.py,  *)
(* the template pipeline PythonBuilder.build() of python_builder.py and    *)
(* its four concrete builders: LinuxPythonBuilder, DarwinPythonBuilder,    *)
(* MinGWPythonBuilder of mingw_python_builder.py (the one build.py         *)
(* imports) and MinGWPythonBuilder of python_builder.py.                   *)
(*                                                                         *)
(* State: the file system paths the pipeline touches, the source checkout, *)
(* the external commands run so far, the log, the exception in flight and  *)
(* the position of the one sequential process.  External tools are opaque: *)
(* whether a command exits non-zero is an input of the action running it.  *)
(***************************************************************************)
EXTENDS Naturals, Sequences, FiniteSets, TLC

VARIABLES
    driver,      \* "main": build.py main(); "direct": a caller that holds a builder object
    namespace,   \* attribute names of the args object handed to BuildConfig
    target_os,   \* value of --target-os (main) / platform of the class constructed (direct)
    module,      \* module the MinGW class is taken from
    call,        \* what the caller invokes on the builder after constructing it
    world,       \* inputs fixed for the run: which artifact is missing, what the patch adds
    cls,         \* class of the builder object once constructed, "none" before
    pc,          \* position of the process
    raised,      \* exception raised in the run, "none" if none
    exitState,   \* "running", "succeeded" (exit status 0) or "failed" (non-zero)
    fs,          \* output path and the directories below it
    fs0,         \* fs as it was when the process started
    environ,     \* os.environ of the process
    envs,        \* the environments composed so far
    invoked,     \* the method the direct caller invoked after build(), and its inputs
    src,         \* the source checkout third_party/python
    cmds,        \* external commands run so far, in order
    logs,        \* log records written so far
    started,     \* stages of build() started so far, in order
    completed,   \* stages of build() that returned without raising
    patchRuns,   \* one record per invocation of _apply_patches
    runs,        \* concurrent runs on one output path: driver, class and position of each
    shared,      \* the output path the concurrent runs share, and who made each directory
    removals     \* the directories removed so far by the concurrent runs, and whose

vars == <<driver, namespace, target_os, module, call, world, cls, pc, raised,
          exitState, fs, fs0, src, cmds, logs, started, completed, patchRuns,
          environ, envs, invoked, runs, shared, removals>>

----------------------------------------------------------------------------
(* build.py: the command line and BuildConfig *)

\* attributes argparse defines from the flags of build.py
GenericFlags == {"repo_root", "out_path", "lldb_py_version", "target_os", "target_arch"}

\* attributes of an args object that also carries what the flags
\* --lldb-py-detailed-version and --mingw-triple of the specialized MinGW entry
\* point define.  The parser of build.py yields GenericFlags only; with these,
\* main() gets past BuildConfig.
SpecializedFlags == GenericFlags \cup {"lldb_py_detailed_version", "mingw_triple"}

\* attributes BuildConfig.__init__ reads from args
BuildConfigReads ==
    {"repo_root", "out_path", "lldb_py_version", "lldb_py_detailed_version", "mingw_triple"}

\* an attribute read of a Namespace that lacks the attribute raises AttributeError
BuildConfig(ns) == IF BuildConfigReads \subseteq ns THEN "none" ELSE "AttributeError"

SupportedOS == {"linux", "darwin", "mingw"}

TargetOSValues == SupportedOS \cup {"unknown"}

\* the class a platform name resolves to; build.py imports MinGWPythonBuilder
\* from mingw_python_builder
ClassFor(os, mod) ==
    CASE os = "linux"  -> "Linux"
      [] os = "darwin" -> "Darwin"
      [] os = "mingw"  -> IF mod = "python_builder" THEN "MinGWLegacy" ELSE "MinGW"
      [] OTHER         -> "none"

Classes == {"Linux", "Darwin", "MinGW", "MinGWLegacy"}

----------------------------------------------------------------------------
(* attributes the constructors define *)

\* self._build_dir: only python_builder.MinGWPythonBuilder sets it
HasBuildDir(c) == c = "MinGWLegacy"

\* self._install_dir: "" in PythonBuilder.__init__, a Path only where a subclass reassigns it
InstallDirIsPath(c) == c = "MinGWLegacy"

\* self._deps_dir
HasDepsDir(c) == c = "MinGWLegacy"

\* self._clang_toolchain_dir
HasClangToolchainDir(c) == c \in {"MinGW", "MinGWLegacy"}

\* self._extract_libffi is a method of python_builder.MinGWPythonBuilder only
HasExtractLibffi(c) == c = "MinGWLegacy"

\* self._patch_ignore_file
HasPatchIgnoreFile(c) == c \in {"Linux", "Darwin", "MinGWLegacy"}

\* names in the patch directory: the one python_builder.MinGWPythonBuilder lists
\* (cpython_mingw_v<version>.patch), another regular file, and a subdirectory
ListedPatch == "cpython_mingw_v.patch"

PatchNames == {ListedPatch, "other.patch", "subdir"}

IsFile(name) == name # "subdir"

\* self.patches: [] in PythonBuilder, set only by python_builder.MinGWPythonBuilder
Patches(c) == IF c = "MinGWLegacy" THEN {ListedPatch} ELSE {}

----------------------------------------------------------------------------
(* run_command and sequences of commands *)

\* run_command with the re-raise left out: the failure is logged and swallowed
run_command_swallows(ok) == "none"

\* run_command: the exception it leaves in flight; a non-zero exit is logged and re-raised
run_command(ok) == IF ok THEN "none" ELSE "CalledProcessError"

\* subprocess.check_output: raises on a non-zero exit, logs nothing
check_output(ok) == IF ok THEN "none" ELSE "CalledProcessError"

CommandFailed == [level |-> "ERROR", msg |-> "Command failed"]

Cmd(stage, name, ok) == [stage |-> stage, name |-> name, ok |-> ok]

\* names[i..] run one after the other through run_command; command number
\* `bad` exits non-zero when it is run (0: none does).  The first exception ends the
\* sequence.
RECURSIVE RunFrom(_, _, _, _)
RunFrom(stage, names, bad, i) ==
    IF i > Len(names)
    THEN [ran |-> <<>>, raised |-> "none", logs |-> {}]
    ELSE LET ok == i # bad
             r  == run_command(ok)
             me == Cmd(stage, names[i], ok)
             lg == IF ok THEN {} ELSE {CommandFailed}
         IN  IF r # "none"
             THEN [ran |-> <<me>>, raised |-> r, logs |-> lg]
             ELSE LET rest == RunFrom(stage, names, bad, i + 1)
                  IN  [ran |-> <<me>> \o rest.ran, raised |-> rest.raised,
                       logs |-> lg \cup rest.logs]

RunAll(stage, names, bad) == RunFrom(stage, names, bad, 1)

----------------------------------------------------------------------------
(* the file system and the source checkout *)

\* a directory below the output path: missing, empty, holding what a run before this
\* one left ("stale"), or holding what this run wrote ("fresh")
DirStates == {"absent", "empty", "stale", "fresh"}

NoDirs == [out |-> FALSE, log |-> FALSE, build |-> "absent", install |-> "absent",
           deps |-> "absent", libffi |-> "absent", archive |-> "absent"]

\* the output path exists and is empty
EmptyOut == [NoDirs EXCEPT !.out = TRUE]

\* the output path as a run before this one left it
StaleOut == [out |-> TRUE, log |-> TRUE, build |-> "stale", install |-> "stale",
             deps |-> "stale", libffi |-> "stale", archive |-> "stale"]

\* the one artifact that is missing from the repository checkout, if any
Missing == {"none", "source", "toolchain", "libffi", "libffi_empty"}

\* the platform's marker file <os>_ignorefile.txt: not there, there as an untracked
\* file (git clean removes it), or there and kept by git (tracked in HEAD or ignored)
MarkerStates == {"absent", "untracked", "kept"}

NoSource == [exists |-> FALSE, marker |-> "absent", patchDir |-> FALSE, files |-> {},
             applied |-> {}]

\* all the orders in which iterdir() can yield the entries of a directory
RECURSIVE Orders(_)
Orders(S) ==
    IF S = {} THEN {<<>>}
    ELSE UNION {{<<x>> \o o : o \in Orders(S \ {x})} : x \in S}

\* the elements of a sequence
Range(q) == {q[i] : i \in 1..Len(q)}

Result(ex, ran, lg, f, s) ==
    [raised |-> ex, ran |-> ran, logs |-> lg, fs |-> f, src |-> s]

----------------------------------------------------------------------------
(* construction of a builder *)

\* PythonBuilder._clean_patches: git reset --hard HEAD, then git clean -df
\* --exclude=.cid, with cwd = the source checkout (a missing cwd makes
\* subprocess.run raise before the command is run)
clean_patches(s, bad) ==
    IF ~s.exists
    THEN [ran |-> <<>>, raised |-> "FileNotFoundError", logs |-> {}, src |-> s]
    ELSE LET r  == RunAll("init", <<"git reset", "git clean">>, bad)
             n  == Len(r.ran)
             s1 == IF n >= 1 /\ r.ran[1].ok THEN [s EXCEPT !.applied = {}] ELSE s
             s2 == IF n >= 2 /\ r.ran[2].ok /\ s1.marker = "untracked"
                   THEN [s1 EXCEPT !.marker = "absent"] ELSE s1
         IN  [ran |-> r.ran, raised |-> r.raised, logs |-> r.logs, src |-> s2]

\* the directory checks at the end of a subclass constructor
SubclassChecks(c, w) ==
    CASE c = "Linux"  -> IF w.missing = "toolchain" THEN "ValueError" ELSE "none"
      [] c = "Darwin" -> "none"
      [] OTHER        -> IF w.missing = "toolchain" THEN "ValueError" ELSE "none"

\* <Class>(build_config): PythonBuilder.__init__ (which resets the checkout and
\* opens the log file under the output path), then the subclass's own part
Construct(c, f, s, w, bad) ==
    LET cp == clean_patches(s, bad)
    IN  IF cp.raised # "none"
        THEN Result(cp.raised, cp.ran, cp.logs, f, cp.src)
        ELSE IF ~f.out
        THEN Result("FileNotFoundError", cp.ran, cp.logs, f, cp.src)
        ELSE Result(SubclassChecks(c, w), cp.ran, cp.logs,
                    [f EXCEPT !.log = TRUE], cp.src)

----------------------------------------------------------------------------
(* the environment of the external commands *)

\* a string is modelled as the sequence of its words, '' as <<>>; str(path) is
\* the one word of the path
Str(path) == <<path>>

\* ' '.join(flags): the words of the flags, in order
RECURSIVE Join(_)
Join(flags) == IF flags = <<>> THEN <<>> ELSE Head(flags) \o Join(Tail(flags))

\* the names os.environ may hold when the builder starts
AmbientNames == {"PATH", "CFLAGS", "LIBS"}

Ambients ==
    {[k \in S |-> <<"ambient">>] : S \in {{"PATH"}, AmbientNames}}

\* dict.update
update(d, kv) ==
    [k \in DOMAIN d \cup DOMAIN kv |-> IF k \in DOMAIN kv THEN kv[k] ELSE d[k]]

\* the overlay written into os.environ itself instead of into a copy of it
Overlay_in_place(amb, kv) == [env |-> update(amb, kv), environ |-> update(amb, kv)]

\* env = os.environ.copy(); env.update({...}): the composed map, and os.environ
\* after it
Overlay(amb, kv) == [env |-> update(amb, kv), environ |-> amb]

\* the _cc, _cxx and _strip properties
cc(c) == IF c = "Darwin" THEN Str("/usr/bin/clang") ELSE Str("clang-mingw/bin/clang")

cxx(c) == IF c = "Darwin" THEN Str("/usr/bin/clang++") ELSE Str("clang-mingw/bin/clang++")

strip(c) == IF c = "Darwin" THEN Str("/usr/bin/strip") ELSE Str("clang-mingw/bin/llvm-strip")

\* the _cflags property: a list of flags
cflags(c) ==
    CASE c = "Linux"  -> <<<<"-D_FORTIFY_SOURCE=2", "-O2">>, <<"-fPIC">>,
                           <<"-fstack-protector-strong">>,
                           <<"-Wno-unused-command-line-argument">>, <<"-s">>>>
      [] c = "Darwin" -> <<<<"-mmacosx-version-min=10.14">>,
                           <<"-DMACOSX_DEPLOYMENT_TARGET=10.14">>,
                           <<"-Ideps/ffi/include">>>>
      [] OTHER        -> <<<<"-target", "x86_64-w64-mingw32">>, <<"--sysroot=mingw">>,
                           <<"-fstack-protector-strong">>, <<"-Ideps/ffi/include">>,
                           <<"-nostdinc">>, <<"-Imingw/include">>,
                           <<"-Iclang-mingw/lib/clang/15.0.4/include">>>>

\* the _ldflags property
ldflags(c) ==
    CASE c = "Linux"  -> <<<<"-Wl,-rpath,$ORIGIN/../lib">>, <<"-Wl,--as-needed">>,
                           <<"-Wl,-z,relro">>, <<"-Wl,-z,now">>>>
      [] c = "Darwin" -> <<<<"-Ldeps/ssl/lib">>, <<"-Wl,-rpath,@loader_path/../lib">>,
                           <<"-O2">>, <<"-fPIC">>, <<"-fstack-protector-strong">>,
                           <<"-Wno-unused-command-line-argument">>>>
      [] OTHER        -> <<<<"--sysroot=mingw">>, <<"-rtlib=compiler-rt">>,
                           <<"-target", "x86_64-w64-mingw32">>, <<"-lucrt">>,
                           <<"-lucrtbase">>, <<"-fuse-ld=lld">>, <<"-Ldeps/ffi/lib">>>>

\* the _rcflags property without the include path of the MinGW classes
rcflags_empty(c) == <<>>

\* the _rcflags property
rcflags(c) == IF c \in {"Linux", "Darwin"} THEN <<>> ELSE <<<<"-Imingw/include">>>>

\* the _cxxflags property: a copy of _cflags
cxxflags(c) == cflags(c)

\* the dict _env overlays: PythonBuilder._env, and the _env of
\* mingw_python_builder, which differs in LIBS
EnvUpdate(c) ==
    [CC       |-> cc(c),
     CXX      |-> cxx(c),
     WINDRES  |-> Str("clang-mingw/bin/llvm-windres"),
     AR       |-> Str("clang-mingw/bin/llvm-ar"),
     READELF  |-> Str("clang-mingw/bin/llvm-readelf"),
     LD       |-> Str("clang-mingw/bin/ld.lld"),
     DLLTOOL  |-> Str("clang-mingw/bin/llvm-dlltoo"),
     RANLIB   |-> Str("clang-mingw/bin/llvm-ranlib"),
     STRIP    |-> strip(c),
     CFLAGS   |-> Join(cflags(c)),
     CXXFLAGS |-> Join(cxxflags(c)),
     LDFLAGS  |-> Join(ldflags(c)),
     RCFLAGS  |-> Join(rcflags(c)),
     CPPFLAGS |-> Join(cflags(c)),
     LIBS     |-> IF c = "MinGW" THEN <<"-lffi", "-lssl", "-lcrypto">> ELSE <<"-lffi">>]

\* the dict the _deps_build of each class overlays
DepsUpdate(c) ==
    CASE c = "Linux" ->
           [CC |-> Str("/usr/bin/gcc"), CXX |-> Str("/usr/bin/g++"),
            CFLAGS |-> <<"-O2", "-fPIC", "-fstack-protector-strong",
                         "-Wno-unused-command-line-argument">>,
            LDFLAGS |-> <<"-Wl,--as-needed", "-Wl,-z,relro,-z,now">>]
      [] c = "Darwin" ->
           [CC |-> Str("/usr/bin/clang"), CXX |-> Str("/usr/bin/clang++"),
            CFLAGS |-> <<"-arch", "machine", "-mmacosx-version-min=10.15",
                         "-DHAVE_DYLD_SHARED_CACHE_CONTAINS_PATH=1">>,
            LDFLAGS |-> <<"-arch", "machine", "-mmacosx-version-min=10.15">>]
      [] OTHER ->
           [CC       |-> Str("/bin/x86_64-w64-mingw32-gcc"),
            CXX      |-> Str("/bin/x86_64-w64-mingw32-g++"),
            WINDRES  |-> Str("/bin/x86_64-w64-mingw32-windres"),
            AR       |-> Str("/bin/x86_64-w64-mingw32-ar"),
            READELF  |-> Str("/bin/x86_64-w64-mingw32-readelf"),
            LD       |-> Str("/bin/x86_64-w64-mingw32-ld"),
            DLLTOOL  |-> Str("/bin/x86_64-w64-mingw32-dlltool"),
            RANLIB   |-> Str("/bin/x86_64-w64-mingw32-gcc-ranlib"),
            STRIP    |-> Str("/bin/x86_64-w64-mingw32-strip"),
            CFLAGS   |-> <<"--sysroot=/usr/x86_64-w64-mingw32", "-fstack-protector-strong">>,
            CXXFLAGS |-> <<"--sysroot=/usr/x86_64-w64-mingw32", "-fstack-protector-strong">>,
            LDFLAGS  |-> <<"--sysroot=/usr/x86_64-w64-mingw32">>,
            RCFLAGS  |-> <<"-I/usr/x86_64-w64-mingw32/include">>,
            CPPFLAGS |-> <<"--sysroot=/usr/x86_64-w64-mingw32", "-fstack-protector-strong">>]

\* one composition of an environment: by which stage, the map, and os.environ
\* before and after it
Composed(stage, amb, o) ==
    [by |-> stage, env |-> o.env, before |-> amb, after |-> o.environ]

----------------------------------------------------------------------------
(* the stages of build() *)

\* MinGWPythonBuilder._extract_libffi: glob for the archive, clean out/libffi,
\* extract, take the first member as the inner directory
extract_libffi(f, w) ==
    IF w.missing = "libffi"
    THEN [raised |-> "FileNotFoundError", fs |-> f,
          logs |-> {[level |-> "ERROR", msg |-> "No libffi archive"]}]
    ELSE IF w.missing = "libffi_empty"
    THEN [raised |-> "Exception", fs |-> [f EXCEPT !.libffi = "empty"],
          logs |-> {[level |-> "ERROR", msg |-> "No inner directory"]}]
    ELSE [raised |-> "none", fs |-> [f EXCEPT !.libffi = "fresh"], logs |-> {}]

\* _deps_build of each class
deps_build(c, f, s, w, bad) ==
    CASE c = "Linux" -> Result("none", <<>>, {}, f, s)
      [] c = "Darwin" ->
           IF ~HasDepsDir(c) THEN Result("AttributeError", <<>>, {}, f, s)
           ELSE LET r == RunAll("deps", <<"./Configure", "make", "make install_sw">>, bad)
                IN  Result(r.raised, r.ran, r.logs,
                           IF r.raised = "none" THEN [f EXCEPT !.deps = "fresh"] ELSE f, s)
      [] OTHER ->
           IF ~HasExtractLibffi(c) THEN Result("AttributeError", <<>>, {}, f, s)
           ELSE LET x == extract_libffi(f, w)
                IN  IF x.raised # "none" THEN Result(x.raised, <<>>, x.logs, x.fs, s)
                    ELSE LET r == RunAll("deps", <<"./configure", "make", "make install">>, bad)
                         IN  Result(r.raised, r.ran, x.logs \cup r.logs,
                                    IF r.raised = "none"
                                    THEN [x.fs EXCEPT !.deps = "fresh"] ELSE x.fs, s)

\* the loop test without the allowlist: every regular file is applied
Selected_every_file(c, name) == IsFile(name)

\* the test of the loop of _apply_patches
Selected(c, name) == IsFile(name) /\ name \in Patches(c)

\* _apply_patches without the marker test
MarkerSkips_never(c, s) == FALSE

\* the first test of _apply_patches: the marker file is there
MarkerSkips(c, s) == HasPatchIgnoreFile(c) /\ s.marker # "absent"

SkipWarning == [level |-> "WARNING", msg |-> "Patches applied, skip patching"]

NotFoundWarning == [level |-> "WARNING", msg |-> "Patches not found, skip patching"]

\* what a successful git apply of patch p does to the checkout
Applied(s, p, w) ==
    [s EXCEPT !.applied = @ \cup {p},
              !.marker = IF p = ListedPatch /\ w.patchAddsMarker /\ @ = "absent"
                         THEN "untracked" ELSE @]

\* the loop of _apply_patches over the directory entries order[i..]; git apply of
\* `bad` exits non-zero
RECURSIVE ApplyFrom(_, _, _, _, _, _)
ApplyFrom(c, s, w, order, bad, i) ==
    IF i > Len(order) THEN [ran |-> <<>>, raised |-> "none", logs |-> {}, src |-> s]
    ELSE IF ~Selected(c, order[i]) THEN ApplyFrom(c, s, w, order, bad, i + 1)
    ELSE LET ok == order[i] # bad
             r  == run_command(ok)
             me == Cmd("patch", order[i], ok)
             lg == IF ok THEN {} ELSE {CommandFailed}
             s1 == IF ok THEN Applied(s, order[i], w) ELSE s
         IN  IF r # "none"
             THEN [ran |-> <<me>>, raised |-> r, logs |-> lg, src |-> s1]
             ELSE LET rest == ApplyFrom(c, s1, w, order, bad, i + 1)
                  IN  [ran |-> <<me>> \o rest.ran, raised |-> rest.raised,
                       logs |-> lg \cup rest.logs, src |-> rest.src]

\* PythonBuilder._apply_patches
apply_patches(c, f, s, w, order, bad) ==
    IF MarkerSkips(c, s) THEN Result("none", <<>>, {SkipWarning}, f, s)
    ELSE IF ~s.patchDir THEN Result("none", <<>>, {NotFoundWarning}, f, s)
    ELSE LET r == ApplyFrom(c, s, w, order, bad, 1)
         IN  Result(r.raised, r.ran, r.logs, f, r.src)

\* build(): remove the build and install directories if they exist, create them
stage_prepare(c, f, s) ==
    LET f1 == IF HasBuildDir(c) /\ f.build # "absent" THEN [f EXCEPT !.build = "absent"] ELSE f
        f2 == IF InstallDirIsPath(c) /\ f1.install # "absent"
              THEN [f1 EXCEPT !.install = "absent"] ELSE f1
        f3 == IF HasBuildDir(c) THEN [f2 EXCEPT !.build = "empty"] ELSE f2
        f4 == IF InstallDirIsPath(c) THEN [f3 EXCEPT !.install = "empty"] ELSE f3
    IN  Result("none", <<>>, {}, f4, s)

\* the _env property in use: PythonBuilder._env and the _env of
\* mingw_python_builder both read self._clang_toolchain_dir; the _cflags of Darwin
\* and of both MinGW classes read self._deps_dir
EnvRaises(c) ==
    \/ ~HasClangToolchainDir(c)
    \/ c # "Linux" /\ ~HasDepsDir(c)

\* _configure of Linux and Darwin: flags, environment, then the configure script
\* run in self._build_dir
ConfigureUnix(c, f, s, bad) ==
    IF (c = "Darwin" /\ ~HasDepsDir(c)) \/ EnvRaises(c) \/ ~HasBuildDir(c)
    THEN Result("AttributeError", <<>>, {}, f, s)
    ELSE LET r == RunAll("configure", <<"configure">>, bad)
         IN  Result(r.raised, r.ran, r.logs,
                    IF r.raised = "none" THEN [f EXCEPT !.build = "fresh"] ELSE f, s)

\* _configure of the MinGW classes: autoreconf, config.guess (check_output), then
\* the configure script with env = self._env and cwd = self._build_dir
ConfigureMinGW(c, f, s, bad) ==
    LET a  == RunAll("configure", <<"autoreconf">>, bad)
        g  == check_output(bad # 2)
        gc == <<Cmd("configure", "config.guess", bad # 2)>>
    IN  IF a.raised # "none" THEN Result(a.raised, a.ran, a.logs, f, s)
        ELSE IF g # "none" THEN Result(g, a.ran \o gc, a.logs, f, s)
        ELSE IF EnvRaises(c) \/ ~HasBuildDir(c)
        THEN Result("AttributeError", a.ran \o gc, a.logs, f, s)
        ELSE LET r == RunAll("configure", <<"configure">>, IF bad = 3 THEN 1 ELSE 0)
             IN  Result(r.raised, a.ran \o gc \o r.ran, a.logs \cup r.logs,
                        IF r.raised = "none" THEN [f EXCEPT !.build = "fresh"] ELSE f, s)

configure(c, f, s, bad) ==
    IF c \in {"Linux", "Darwin"} THEN ConfigureUnix(c, f, s, bad)
    ELSE ConfigureMinGW(c, f, s, bad)

\* PythonBuilder._install: make -j<N> install in self._build_dir
install(c, f, s, bad) ==
    IF ~HasBuildDir(c) THEN Result("AttributeError", <<>>, {}, f, s)
    ELSE LET r == RunAll("install", <<"make install">>, bad)
         IN  Result(r.raised, r.ran, r.logs,
                    IF r.raised = "none" THEN [f EXCEPT !.install = "fresh"] ELSE f, s)

\* self._version: the LLDB_PY_DETAILED_VERSION of the BuildConfig
DetailedVersion == "LLDB_PY_DETAILED_VERSION"

\* the file name of the archive package() writes under the output path, in parts
ArchiveName(c) == <<"python-mingw-x86-", DetailedVersion, ".tar.gz">>

\* the commands of package(), each with the archive it is told to write
Archiving(ran, archive) ==
    [i \in 1..Len(ran) |->
        [stage |-> ran[i].stage, name |-> ran[i].name, ok |-> ran[i].ok,
         archive |-> archive]]

\* python_builder.MinGWPythonBuilder.package: unlink an archive of the same name,
\* list the install directory, run tar in it
package(c, f, s, bad) ==
    LET f1 == IF f.archive # "absent" THEN [f EXCEPT !.archive = "absent"] ELSE f
    IN  IF f1.install = "absent" THEN Result("FileNotFoundError", <<>>, {}, f1, s)
        ELSE LET r == RunAll("package", <<"tar">>, bad)
             IN  Result(r.raised, Archiving(r.ran, ArchiveName(c)), r.logs,
                        IF r.raised = "none" THEN [f1 EXCEPT !.archive = "fresh"] ELSE f1, s)

----------------------------------------------------------------------------
(* the post-build hooks *)

\* members of PythonBuilder the _post_build hooks call through super(); the class
\* defines neither
HasPreparePackage(c) == FALSE

HasPackage(c) == FALSE

\* the files DarwinPythonBuilder._dylib_rpath_setting names
PythonExec == "bin/python3.11"

PythonDylib == "lib/libpython3.11.dylib"

SslModule == "lib-dynload/_ssl.cpython-311-darwin.so"

\* the entries dylib_dir.iterdir() may yield
DylibNames == {"libssl.dylib", "libcrypto.dylib"}

\* 'ssl' in file_name
HasSsl(fileName) == fileName = "libssl.dylib"

Tool(name, on, ok) == [stage |-> "fixup", name |-> name, on |-> on, ok |-> ok]

\* the commands run before the loop, on the interpreter and its shared library
HeadCmds ==
    <<[name |-> "install_name_tool -id", on |-> PythonExec],
      [name |-> "install_name_tool -change", on |-> PythonExec],
      [name |-> "install_name_tool -id", on |-> PythonDylib]>>

\* the commands of one pass of the loop
DylibCmds(d) ==
    <<[name |-> "install_name_tool -id", on |-> d]>>
    \o (IF HasSsl(d) THEN <<[name |-> "install_name_tool -change", on |-> d]>> ELSE <<>>)
    \o <<[name |-> "install_name_tool -change", on |-> SslModule],
         [name |-> "codesign --remove-signature", on |-> d],
         [name |-> "codesign -f -s -", on |-> d]>>

\* the commands specs[i..] run one after the other through run_command; command
\* number `bad` exits non-zero
RECURSIVE RunToolsFrom(_, _, _)
RunToolsFrom(specs, bad, i) ==
    IF i > Len(specs)
    THEN [ran |-> <<>>, raised |-> "none", logs |-> {}]
    ELSE LET ok == i # bad
             r  == run_command(ok)
             me == Tool(specs[i].name, specs[i].on, ok)
             lg == IF ok THEN {} ELSE {CommandFailed}
         IN  IF r # "none"
             THEN [ran |-> <<me>>, raised |-> r, logs |-> lg]
             ELSE LET rest == RunToolsFrom(specs, bad, i + 1)
                  IN  [ran |-> <<me>> \o rest.ran, raised |-> rest.raised,
                       logs |-> lg \cup rest.logs]

DylibFailed(d) == [level |-> "ERROR", msg |-> "dylib failed", on |-> d]

RpathSettingFailed == [level |-> "ERROR", msg |-> "Error dylib rpath setting"]

\* the loop of _dylib_rpath_setting over order[i..]: the except clause of a pass
\* logs and continues
RECURSIVE FixFrom(_, _, _)
FixFrom(order, bad, i) ==
    IF i > Len(order) THEN [ran |-> <<>>, logs |-> {}]
    ELSE LET r    == RunToolsFrom(DylibCmds(order[i]),
                                  IF bad.on = order[i] THEN bad.step ELSE 0, 1)
             lg   == IF r.raised = "none" THEN r.logs
                     ELSE r.logs \cup {DylibFailed(order[i])}
             rest == FixFrom(order, bad, i + 1)
         IN  [ran |-> r.ran \o rest.ran, logs |-> lg \cup rest.logs]

\* DarwinPythonBuilder._dylib_rpath_setting.  `given`: the caller has set _deps_dir
\* and _install_dir on the builder (no constructor does); `hasDir`: the dylib
\* directory exists; `bad`: which command of which file exits non-zero
dylib_rpath_setting(c, f, s, given, hasDir, order, bad) ==
    IF ~(HasDepsDir(c) /\ InstallDirIsPath(c)) /\ ~given
    THEN Result("AttributeError", <<>>, {}, f, s)
    ELSE LET h == RunToolsFrom(HeadCmds, IF bad.on = "head" THEN bad.step ELSE 0, 1)
         IN  IF h.raised # "none"
             THEN Result(h.raised, h.ran, h.logs \cup {RpathSettingFailed}, f, s)
             ELSE IF ~hasDir
             THEN Result("FileNotFoundError", h.ran, {RpathSettingFailed}, f, s)
             ELSE LET l == FixFrom(order, bad, 1)
                  IN  Result("none", h.ran \o l.ran, l.logs, f, s)

\* what the shell pipeline getconf GNU_LIBC_VERSION | grep -oE ... may end with
GetconfResults ==
    {[raises |-> FALSE, returncode |-> 0, stdout |-> "2.35"],
     [raises |-> FALSE, returncode |-> 0, stdout |-> ""],
     [raises |-> FALSE, returncode |-> 1, stdout |-> ""],
     [raises |-> TRUE,  returncode |-> 1, stdout |-> ""]}

\* LinuxPythonBuilder._get_glibc_version: the version printed, or None
get_glibc_version(g) ==
    IF g.raises
    THEN [version |-> "None", logs |-> {[level |-> "ERROR", msg |-> "Error executing command"]}]
    ELSE IF g.returncode # 0
    THEN [version |-> "None", logs |-> {[level |-> "ERROR", msg |-> "Command failed with error"]}]
    ELSE IF g.stdout # ""
    THEN [version |-> g.stdout, logs |-> {}]
    ELSE [version |-> "None", logs |-> {[level |-> "WARNING", msg |-> "No version information"]}]

\* _post_build of the Linux, Darwin and mingw_python_builder classes:
\* super()._prepare_package(), the platform's own step, super()._package(...)
post_build(c, f, s, given, hasDir, order, bad, getconf) ==
    IF ~HasPreparePackage(c) THEN Result("AttributeError", <<>>, {}, f, s)
    ELSE LET d == CASE c = "Darwin" ->
                         dylib_rpath_setting(c, f, s, given, hasDir, order, bad)
                    [] c = "Linux" ->
                         Result("none", <<>>, get_glibc_version(getconf).logs, f, s)
                    [] OTHER -> Result("none", <<>>, {}, f, s)
         IN  IF d.raised # "none" \/ HasPackage(c) THEN d
             ELSE Result("AttributeError", d.ran, d.logs, f, s)

----------------------------------------------------------------------------
(* the preparation of the install tree for packaging *)

\* the entries python_bin_dir.iterdir() may yield
BinNames == {"python.exe", "libpython3.11.dll", "python3.exe", "2to3"}

\* f.is_symlink()
IsSymlink(name) == name = "python3.exe"

\* f.suffix
Suffix(name) ==
    CASE name \in {"python.exe", "python3.exe"} -> ".exe"
      [] name = "libpython3.11.dll"            -> ".dll"
      [] OTHER                                  -> ""

WindowsSuffixes == {".exe", ".dll"}

\* the test of the loop of _clean_bin_dir: the entry is removed, not stripped
Unlinks(name) == Suffix(name) \notin WindowsSuffixes \/ IsSymlink(name)

\* the loop of _clean_bin_dir over order[i..]: _strip_in_place runs the strip tool
\* through run_command, and nothing around it catches; the strip of `bad` exits
\* non-zero
RECURSIVE CleanBinFrom(_, _, _)
CleanBinFrom(order, bad, i) ==
    IF i > Len(order) THEN [ran |-> <<>>, raised |-> "none", logs |-> {}, unlinked |-> {}]
    ELSE IF Unlinks(order[i])
    THEN LET rest == CleanBinFrom(order, bad, i + 1)
         IN  [rest EXCEPT !.unlinked = @ \cup {order[i]}]
    ELSE LET ok == order[i] # bad
             r  == run_command(ok)
             me == [stage |-> "strip", name |-> "llvm-strip", on |-> order[i], ok |-> ok]
             lg == IF ok THEN {} ELSE {CommandFailed}
         IN  IF r # "none"
             THEN [ran |-> <<me>>, raised |-> r, logs |-> lg, unlinked |-> {}]
             ELSE LET rest == CleanBinFrom(order, bad, i + 1)
                  IN  [rest EXCEPT !.ran = <<me>> \o @, !.logs = lg \cup @]

\* _clean_bin_dir: nothing to do without a bin directory
clean_bin_dir(f, order, bad) ==
    IF f.install # "fresh"
    THEN [ran |-> <<>>, raised |-> "none", logs |-> {}, unlinked |-> {}]
    ELSE CleanBinFrom(order, bad, 1)

\* the list _external_libs of _copy_external_libs
ExternalLibs == <<"libffi-8.dll", "libssp-0.dll">>

DoesNotExist(lib) == [level |-> "WARNING", msg |-> "does not exist. Skipping.", on |-> lib]

CopyError == [level |-> "ERROR", msg |-> "Error copying external libraries"]

\* _copy_file_if_exists on ExternalLibs[i..]: shutil.copy2 of `bad` raises
RECURSIVE CopyFrom(_, _, _)
CopyFrom(exist, bad, i) ==
    IF i > Len(ExternalLibs) THEN [copied |-> {}, raised |-> "none", logs |-> {}]
    ELSE LET lib == ExternalLibs[i]
         IN  IF lib \notin exist
             THEN LET rest == CopyFrom(exist, bad, i + 1)
                  IN  [rest EXCEPT !.logs = @ \cup {DoesNotExist(lib)}]
             ELSE IF lib = bad
             THEN [copied |-> {}, raised |-> "OSError", logs |-> {}]
             ELSE LET rest == CopyFrom(exist, bad, i + 1)
                  IN  [rest EXCEPT !.copied = @ \cup {lib}]

\* _copy_external_libs: one try statement around the whole loop; the except
\* clause logs and the method returns
copy_external_libs(exist, bad) ==
    LET r == CopyFrom(exist, bad, 1)
    IN  [copied |-> r.copied,
         logs   |-> IF r.raised = "none" THEN r.logs ELSE r.logs \cup {CopyError}]

\* the pruning of the install tree

\* A file name is the sequence of its parts, cut wherever a denylisted string
\* begins or ends in it; a path is a sequence of names; the install tree is a set
\* of nodes [path, kind], kind being "dir" or "file".

\* str.startswith and str.endswith with one string
StartsWith(name, p) == Len(p) <= Len(name) /\ SubSeq(name, 1, Len(p)) = p

EndsWith(name, p) ==
    Len(p) <= Len(name) /\ SubSeq(name, Len(name) - Len(p) + 1, Len(name)) = p

\* exclude_dirs_tuple; "major" stands for self._major_version
ExcludeDirs ==
    {<<"config-", "major">>, <<"__pycache__">>, <<"idlelib">>, <<"tkinter">>,
     <<"turtledemo">>, <<"test">>, <<"test", "s">>}

\* exclude_files_tuple
ExcludeFiles ==
    {<<"bdist_wininst.py">>, <<"turtle.py">>, <<".whl">>, <<".pyc">>, <<".pickle">>}

\* item.startswith(exclude_dirs_tuple), item.endswith(exclude_files_tuple)
DirExcluded(name) == \E p \in ExcludeDirs : StartsWith(name, p)

FileExcluded(name) == \E p \in ExcludeFiles : EndsWith(name, p)

IsPathPrefix(p, q) == Len(p) <= Len(q) /\ SubSeq(q, 1, Len(p)) = p

\* Path.is_dir()
IsDir(tree, p) == [path |-> p, kind |-> "dir"] \in tree

\* shutil.rmtree(p): the directory and everything below it
rmtree(tree, p) == {n \in tree : ~IsPathPrefix(p, n.path)}

\* PythonBuilder._remove_dir
remove_dir(tree, p) == IF IsDir(tree, p) THEN rmtree(tree, p) ELSE tree

\* the entries of directory p
Entries(tree, p) == {n \in tree : Len(n.path) = Len(p) + 1 /\ IsPathPrefix(p, n.path)}

\* os.walk that yields the top directory only
SubDirs_top_only(tree, p) == {}

\* the list dirs os.walk yields for directory p, as paths: the walk descends into
\* each of them that is still there when its turn comes
SubDirs(tree, p) == {n.path : n \in {m \in Entries(tree, p) : m.kind = "dir"}}

\* the body of the loop of _remove_exclude for one (root, dirs, files)
PruneAt(tree, p) ==
    {n \in tree :
        ~\E e \in Entries(tree, p) :
            /\ IF e.kind = "dir" THEN DirExcluded(e.path[Len(e.path)])
                                 ELSE FileExcluded(e.path[Len(e.path)])
            /\ IF e.kind = "dir" THEN IsPathPrefix(e.path, n.path) ELSE n = e}

\* os.walk top-down over the directories still to visit; a directory that was
\* removed before its turn is skipped (the error of its scan is ignored)
RECURSIVE WalkFrom(_, _)
WalkFrom(tree, pending) ==
    IF pending = {} THEN tree
    ELSE LET p == CHOOSE x \in pending : TRUE
         IN  IF ~IsDir(tree, p) THEN WalkFrom(tree, pending \ {p})
             ELSE WalkFrom(PruneAt(tree, p), (pending \ {p}) \cup SubDirs(tree, p))

\* PythonBuilder._remove_exclude
remove_exclude(tree) == WalkFrom(tree, {<<<<"lib">>>>})

\* _clean_share_dir, _clean_lib_dir, _remove_exclude, in the order of
\* prepare_for_package
prune(tree) ==
    remove_exclude(remove_dir(remove_dir(tree, <<<<"share">>>>),
                              <<<<"lib">>, <<"pkgconfig">>>>))

\* the directory lib/python3.11 of the install tree
PyLib == <<<<"lib">>, <<"python3.11">>>>

\* the nodes an install tree may have besides lib and lib/python3.11
OptionalNodes ==
    {[path |-> <<<<"share">>>>, kind |-> "dir"],
     [path |-> <<<<"share">>, <<"man">>>>, kind |-> "dir"],
     [path |-> <<<<"lib">>, <<"pkgconfig">>>>, kind |-> "dir"],
     [path |-> PyLib \o <<<<"os", ".py">>>>, kind |-> "file"],
     [path |-> PyLib \o <<<<"my", "turtle.py">>>>, kind |-> "file"],
     [path |-> PyLib \o <<<<"test", "_support">>>>, kind |-> "dir"],
     [path |-> PyLib \o <<<<"json">>>>, kind |-> "dir"],
     [path |-> PyLib \o <<<<"json">>, <<"__pycache__">>>>, kind |-> "dir"],
     [path |-> PyLib \o <<<<"json">>, <<"__pycache__">>, <<"a", ".pyc">>>>, kind |-> "file"]}

\* a tree holds the directory of each of its nodes
Closed(tree) ==
    \A n \in tree : Len(n.path) > 1 => IsDir(tree, SubSeq(n.path, 1, Len(n.path) - 1))

\* the install tree with nothing but lib/python3.11
BareTree == {[path |-> <<<<"lib">>>>, kind |-> "dir"], [path |-> PyLib, kind |-> "dir"]}

\* the install trees make install may leave
Trees ==
    {t \in {S \cup BareTree : S \in SUBSET OptionalNodes} : Closed(t)}

\* python_builder.MinGWPythonBuilder.prepare_for_package: _clean_bin_dir,
\* _clean_share_dir, _clean_lib_dir, _remove_exclude (the pruning of the install
\* tree), _copy_external_libs
prepare_for_package(c, f, s, order, bad, exist, badCopy, tree) ==
    LET b  == clean_bin_dir(f, order, bad)
        cp == copy_external_libs(exist, badCopy)
    IN  IF b.raised # "none"
        THEN [raised |-> b.raised, ran |-> b.ran, logs |-> b.logs, fs |-> f, src |-> s,
              unlinked |-> b.unlinked, copied |-> {}, tree |-> tree]
        ELSE [raised |-> "none", ran |-> b.ran, logs |-> b.logs \cup cp.logs,
              fs |-> [f EXCEPT !.install = "pruned"], src |-> s,
              unlinked |-> b.unlinked, copied |-> cp.copied, tree |-> prune(tree)]

----------------------------------------------------------------------------
(* the process *)

\* how many times in a row the direct caller invokes _apply_patches
MaxInvocations == 2

Stages == <<"deps", "patch", "prepare", "configure", "install">>

\* build() with the directories prepared after _configure() instead of before it
AfterStage_prepare_late(stage) ==
    CASE stage = "deps"      -> "patch"
      [] stage = "patch"     -> "configure"
      [] stage = "configure" -> "prepare"
      [] stage = "prepare"   -> "install"
      [] stage = "install"   -> "built"

\* build() and _pre_build(): where control goes when a stage returns
AfterStage(stage) ==
    CASE stage = "deps"      -> "patch"
      [] stage = "patch"     -> "prepare"
      [] stage = "prepare"   -> "configure"
      [] stage = "configure" -> "install"
      [] stage = "install"   -> "built"

\* where an exception raised below the caller lands: the except clause of main(),
\* or out of the direct caller
OnError == IF driver = "main" THEN "except" ELSE "exit"

\* what the direct caller can invoke on a builder of class c
CallsOf(c) ==
    {"build", "apply_patches"}
    \cup (IF c \in {"Linux", "Darwin", "MinGW"} THEN {"post_build"} ELSE {})
    \cup (IF c = "Darwin" THEN {"dylib_rpath_setting"} ELSE {})

Sources ==
    {NoSource} \cup
    {[exists |-> TRUE, marker |-> m, patchDir |-> TRUE, files |-> F, applied |-> {}] :
        m \in MarkerStates, F \in SUBSET PatchNames} \cup
    {[exists |-> TRUE, marker |-> m, patchDir |-> FALSE, files |-> {}, applied |-> {}] :
        m \in MarkerStates}

Init ==
    /\ driver \in {"main", "direct"}
    /\ namespace \in (IF driver = "main" THEN {GenericFlags, SpecializedFlags}
                                         ELSE {SpecializedFlags})
    /\ target_os \in (IF driver = "main" THEN TargetOSValues ELSE SupportedOS)
    /\ module \in (IF driver = "direct" /\ target_os = "mingw"
                   THEN {"mingw_python_builder", "python_builder"}
                   ELSE {"mingw_python_builder"})
    /\ call \in (IF driver = "direct" THEN CallsOf(ClassFor(target_os, module))
                                       ELSE {"build"})
    /\ world \in [missing : Missing, patchAddsMarker : BOOLEAN]
    /\ cls = "none"
    /\ pc = IF driver = "main" THEN "config" ELSE "construct"
    /\ raised = "none"
    /\ exitState = "running"
    /\ fs \in {NoDirs, EmptyOut, StaleOut}
    /\ fs0 = fs
    /\ environ \in Ambients
    /\ envs = {}
    /\ invoked = [method |-> "none"]
    /\ src \in {s \in Sources : s.exists = (world.missing # "source")}
    /\ cmds = <<>>
    /\ logs = {}
    /\ started = <<>>
    /\ completed = {}
    /\ patchRuns = <<>>
    /\ runs = <<>>
    /\ shared = <<>>
    /\ removals = {}

\* main(), line 37: BuildConfig(args); an exception here is outside the try block
main_BuildConfig ==
    /\ driver = "main" /\ pc = "config"
    /\ raised' = BuildConfig(namespace)
    /\ pc' = IF raised' = "none" THEN "reset" ELSE "exit"
    /\ exitState' = IF raised' = "none" THEN exitState ELSE "failed"
    /\ UNCHANGED <<runs, shared, removals, invoked, environ, envs, driver, namespace, target_os, module, call, world, cls, fs, fs0,
                   src, cmds, logs, started, completed, patchRuns>>

\* main(), lines 39-46: delete and recreate the output path; logging.basicConfig
\* finds the root logger configured by python_builder's import and adds no file
main_Reset ==
    /\ driver = "main" /\ pc = "reset"
    /\ fs' = EmptyOut
    /\ pc' = "construct"
    /\ UNCHANGED <<runs, shared, removals, invoked, environ, envs, driver, namespace, target_os, module, call, world, cls, raised,
                   exitState, fs0, src, cmds, logs, started, completed, patchRuns>>

\* the effects of a constructor call on the state
Constructed(c, r, next) ==
    /\ cls' = IF r.raised = "none" THEN c ELSE cls
    /\ raised' = r.raised
    /\ cmds' = cmds \o r.ran
    /\ logs' = logs \cup r.logs
    /\ fs' = r.fs
    /\ src' = r.src
    /\ pc' = IF r.raised = "none" THEN next ELSE OnError
    /\ exitState' = IF r.raised # "none" /\ driver = "direct" THEN "failed" ELSE exitState

\* main(), lines 48-57: the builder of the target OS is constructed, or ValueError
\* is raised; build() is entered
main_Construct ==
    /\ driver = "main" /\ pc = "construct"
    /\ IF target_os \in SupportedOS
       THEN \E bad \in 0..2 :
              Constructed(ClassFor(target_os, module),
                          Construct(ClassFor(target_os, module), fs, src, world, bad),
                          "deps")
       ELSE /\ raised' = "ValueError"
            /\ pc' = "except"
            /\ UNCHANGED <<cls, cmds, logs, fs, src, exitState>>
    /\ UNCHANGED <<runs, shared, removals, invoked, environ, envs, driver, namespace, target_os, module, call, world, fs0, started,
                   completed, patchRuns>>

\* main(), lines 59-60: except Exception logs the exception; main() then returns
\* and the interpreter exits with status 0
main_Except ==
    /\ driver = "main" /\ pc = "except"
    /\ logs' = logs \cup {[level |-> "ERROR", msg |-> "exception in main"]}
    /\ pc' = "exit"
    /\ exitState' = "succeeded"
    /\ UNCHANGED <<runs, shared, removals, invoked, environ, envs, driver, namespace, target_os, module, call, world, cls, raised,
                   fs, fs0, src, cmds, started, completed, patchRuns>>

\* a caller constructs a builder class itself and invokes build() or _apply_patches()
direct_Construct ==
    /\ driver = "direct" /\ pc = "construct"
    /\ \E bad \in 0..2 :
         Constructed(ClassFor(target_os, module),
                     Construct(ClassFor(target_os, module), fs, src, world, bad),
                     CASE call = "build"         -> "deps"
                       [] call = "apply_patches" -> "patch"
                       [] OTHER                  -> "method")
    /\ UNCHANGED <<runs, shared, removals, invoked, environ, envs, driver, namespace, target_os, module, call, world, fs0, started,
                   completed, patchRuns>>

\* the effects of one stage of build() on the state
Finish(stage, r) ==
    /\ started' = Append(started, stage)
    /\ completed' = IF r.raised = "none" THEN completed \cup {stage} ELSE completed
    /\ raised' = r.raised
    /\ cmds' = cmds \o r.ran
    /\ logs' = logs \cup r.logs
    /\ fs' = r.fs
    /\ src' = r.src
    /\ pc' = IF r.raised = "none" THEN AfterStage(stage) ELSE OnError
    /\ exitState' = IF r.raised # "none" /\ driver = "direct" THEN "failed" ELSE exitState

\* the record kept of one invocation of _apply_patches
PatchRun(s, r) ==
    [marker |-> s.marker, patchDir |-> s.patchDir, files |-> s.files,
     ran |-> r.ran, raised |-> r.raised, logs |-> r.logs, changed |-> r.src # s]

\* whether _deps_build got as far as composing its environment: the one of
\* python_builder.MinGWPythonBuilder does after the extraction of libffi, the one
\* of mingw_python_builder has raised by then
deps_composes(c, r) ==
    CASE c \in {"Linux", "Darwin"} -> TRUE
      [] c = "MinGW"       -> FALSE
      [] c = "MinGWLegacy" -> r.raised = "none" \/ r.ran # <<>>

\* whether _configure got as far as evaluating env=self._env: it is the last
\* thing evaluated before the configure script is run
configure_composes(c, r) ==
    r.ran # <<>> /\ r.ran[Len(r.ran)].name = "configure"

\* the effects of a stage on os.environ and on the record of the environments
Compose(stage, composes, kv) ==
    LET o == Overlay(environ, kv)
    IN  /\ environ' = IF composes THEN o.environ ELSE environ
        /\ envs' = IF composes THEN envs \cup {Composed(stage, environ, o)} ELSE envs

DepsBuild ==
    /\ call = "build" /\ pc = "deps"
    /\ \E bad \in 0..3 :
         LET r == deps_build(cls, fs, src, world, bad)
         IN  /\ Finish("deps", r)
             /\ Compose("deps", deps_composes(cls, r), DepsUpdate(cls))
    /\ UNCHANGED <<runs, shared, removals, invoked, driver, namespace, target_os, module, call, world, cls, fs0,
                   patchRuns>>

PatchApply ==
    /\ call = "build" /\ pc = "patch"
    /\ \E order \in Orders(src.files), bad \in src.files \cup {"none"} :
         LET r == apply_patches(cls, fs, src, world, order, bad)
         IN  /\ Finish("patch", r)
             /\ patchRuns' = Append(patchRuns, PatchRun(src, r))
    /\ UNCHANGED <<runs, shared, removals, invoked, environ, envs, driver, namespace, target_os, module, call, world, cls, fs0>>

StagePrepare ==
    /\ call = "build" /\ pc = "prepare"
    /\ Finish("prepare", stage_prepare(cls, fs, src))
    /\ UNCHANGED <<runs, shared, removals, invoked, environ, envs, driver, namespace, target_os, module, call, world, cls, fs0,
                   patchRuns>>

Configure ==
    /\ call = "build" /\ pc = "configure"
    /\ \E bad \in 0..3 :
         LET r == configure(cls, fs, src, bad)
         IN  /\ Finish("configure", r)
             /\ Compose("configure", configure_composes(cls, r), EnvUpdate(cls))
    /\ UNCHANGED <<runs, shared, removals, invoked, driver, namespace, target_os, module, call, world, cls, fs0,
                   patchRuns>>

Install ==
    /\ call = "build" /\ pc = "install"
    /\ \E bad \in 0..1 : Finish("install", install(cls, fs, src, bad))
    /\ UNCHANGED <<runs, shared, removals, invoked, environ, envs, driver, namespace, target_os, module, call, world, cls, fs0,
                   patchRuns>>

\* build() returned and its caller goes on to its end: main() logs that the build,
\* preparation and packaging are complete (line 58) and returns
BuildReturned ==
    /\ pc = "built"
    /\ logs' = IF driver = "main"
               THEN logs \cup {[level |-> "INFO", msg |-> "build complete"]} ELSE logs
    /\ pc' = "exit"
    /\ exitState' = "succeeded"
    /\ UNCHANGED <<runs, shared, removals, invoked, environ, envs, driver, namespace, target_os, module, call, world, cls, raised,
                   fs, fs0, src, cmds, started, completed, patchRuns>>

\* the direct caller of python_builder.MinGWPythonBuilder invokes package() after
\* build()
direct_Package ==
    /\ driver = "direct" /\ pc \in {"built", "prepared"} /\ cls = "MinGWLegacy"
    /\ \E bad \in 0..1 :
         LET r == package(cls, fs, src, bad)
         IN  /\ raised' = r.raised
             /\ cmds' = cmds \o r.ran
             /\ logs' = logs \cup r.logs
             /\ fs' = r.fs
             /\ pc' = "exit"
             /\ exitState' = IF r.raised = "none" THEN "succeeded" ELSE "failed"
    /\ UNCHANGED <<runs, shared, removals, invoked, environ, envs, driver, namespace, target_os, module, call, world, cls, fs0, src,
                   started, completed, patchRuns>>

\* the direct caller invokes _apply_patches() on its builder, MaxInvocations times
\* in a row, whatever the invocation before raised
direct_ApplyPatches ==
    /\ driver = "direct" /\ call = "apply_patches" /\ pc = "patch"
    /\ \E order \in Orders(src.files), bad \in src.files \cup {"none"} :
         LET r == apply_patches(cls, fs, src, world, order, bad)
         IN  /\ patchRuns' = Append(patchRuns, PatchRun(src, r))
             /\ raised' = r.raised
             /\ cmds' = cmds \o r.ran
             /\ logs' = logs \cup r.logs
             /\ src' = r.src
             /\ pc' = IF Len(patchRuns) + 1 < MaxInvocations THEN "patch" ELSE "exit"
             /\ exitState' = IF pc' # "exit" THEN exitState
                             ELSE IF r.raised = "none" THEN "succeeded" ELSE "failed"
    /\ UNCHANGED <<runs, shared, removals, invoked, environ, envs, driver, namespace, target_os, module, call, world, cls, fs, fs0,
                   started, completed>>

\* the contents of install/bin: the order iterdir() yields them in, and the one
\* whose strip exits non-zero
BinInputs ==
    UNION {{[order |-> o, bad |-> b] :
               o \in Orders(S), b \in {n \in S : ~Unlinks(n)} \cup {"none"}} :
           S \in SUBSET BinNames}

\* which listed libraries exist, and the one whose copy fails
LibInputs ==
    UNION {{[exist |-> e, badCopy |-> b] : b \in e \cup {"none"}} :
           e \in SUBSET Range(ExternalLibs)}

\* the inputs of a run of prepare_for_package: one of the bin directory, the
\* libraries and the tree varies, with one binary in bin whose strip succeeds or
\* fails
PrepareInputs ==
    {[order |-> b.order, bad |-> b.bad, exist |-> Range(ExternalLibs),
      badCopy |-> "none", tree |-> BareTree] : b \in BinInputs}
    \cup {[order |-> <<"python.exe">>, bad |-> b, exist |-> l.exist,
           badCopy |-> l.badCopy, tree |-> BareTree] :
              b \in {"python.exe", "none"}, l \in LibInputs}
    \cup {[order |-> <<"python.exe">>, bad |-> b, exist |-> {}, badCopy |-> "none",
           tree |-> t] : b \in {"python.exe", "none"}, t \in Trees}

\* the direct caller of python_builder.MinGWPythonBuilder invokes
\* prepare_for_package() after build()
direct_PrepareForPackage ==
    /\ driver = "direct" /\ pc = "built" /\ cls = "MinGWLegacy"
    /\ \E i \in PrepareInputs :
         \E r \in {prepare_for_package(cls, fs, src, i.order, i.bad, i.exist, i.badCopy,
                                       i.tree)} :
             /\ invoked' = [method |-> "prepare_for_package", order |-> i.order,
                            bad |-> i.bad, exist |-> i.exist, badCopy |-> i.badCopy,
                            unlinked |-> r.unlinked, copied |-> r.copied,
                            raised |-> r.raised, logs |-> r.logs,
                            tree0 |-> i.tree, tree |-> r.tree]
             /\ raised' = r.raised
             /\ cmds' = cmds \o r.ran
             /\ logs' = logs \cup r.logs
             /\ fs' = r.fs
             /\ pc' = IF r.raised = "none" THEN "prepared" ELSE "exit"
             /\ exitState' = IF r.raised = "none" THEN exitState ELSE "failed"
    /\ UNCHANGED <<runs, shared, removals, driver, namespace, target_os, module, call, world, cls, fs0, src,
                   started, completed, patchRuns, environ, envs>>

\* the inputs of a run of the Darwin fix-up
FixupInputs ==
    {[given |-> g, hasDir |-> h, order |-> o, bad |-> b] :
        g \in BOOLEAN, h \in BOOLEAN,
        o \in UNION {Orders(S) : S \in SUBSET DylibNames},
        b \in {[on |-> "none", step |-> 0]}
              \cup {[on |-> "head", step |-> n] : n \in 1..Len(HeadCmds)}
              \cup UNION {{[on |-> d, step |-> n] : n \in 1..Len(DylibCmds(d))} :
                          d \in DylibNames}}

\* the effects on the state of a method the direct caller invokes last
Invoked(rec, r) ==
    /\ invoked' = rec
    /\ raised' = r.raised
    /\ cmds' = cmds \o r.ran
    /\ logs' = logs \cup r.logs
    /\ fs' = r.fs
    /\ src' = r.src
    /\ pc' = "exit"
    /\ exitState' = IF r.raised = "none" THEN "succeeded" ELSE "failed"

\* the direct caller invokes _dylib_rpath_setting() on a Darwin builder
direct_DylibRpathSetting ==
    /\ driver = "direct" /\ call = "dylib_rpath_setting" /\ pc = "method"
    /\ \E i \in FixupInputs :
         /\ (~i.hasDir => i.order = <<>>)
         /\ (i.bad.on \in DylibNames => i.hasDir)
         /\ Invoked([method |-> "dylib_rpath_setting", given |-> i.given,
                     hasDir |-> i.hasDir, order |-> i.order, bad |-> i.bad],
                    dylib_rpath_setting(cls, fs, src, i.given, i.hasDir, i.order, i.bad))
    /\ UNCHANGED <<runs, shared, removals, driver, namespace, target_os, module, call, world, cls, fs0,
                   started, completed, patchRuns, environ, envs>>

\* the direct caller invokes _post_build() on a builder that defines it
direct_PostBuild ==
    /\ driver = "direct" /\ call = "post_build" /\ pc = "method"
    /\ \E i \in FixupInputs, g \in GetconfResults :
         /\ (~i.hasDir => i.order = <<>>)
         /\ (i.bad.on \in DylibNames => i.hasDir)
         /\ (cls # "Darwin" => i = [given |-> FALSE, hasDir |-> FALSE, order |-> <<>>,
                                    bad |-> [on |-> "none", step |-> 0]])
         /\ (cls # "Linux" => g.stdout # "")
         /\ Invoked([method |-> "post_build", given |-> i.given,
                     hasDir |-> i.hasDir, order |-> i.order, bad |-> i.bad,
                     getconf |-> g],
                    post_build(cls, fs, src, i.given, i.hasDir, i.order, i.bad, g))
    /\ UNCHANGED <<runs, shared, removals, driver, namespace, target_os, module, call, world, cls, fs0,
                   started, completed, patchRuns, environ, envs>>

Next ==
    \/ main_BuildConfig
    \/ main_Reset
    \/ main_Construct
    \/ main_Except
    \/ direct_Construct
    \/ BuildReturned
    \/ direct_PrepareForPackage
    \/ direct_Package
    \/ direct_ApplyPatches
    \/ direct_DylibRpathSetting
    \/ direct_PostBuild
    \/ DepsBuild
    \/ PatchApply
    \/ StagePrepare
    \/ Configure
    \/ Install

Spec == Init /\ [][Next]_vars

----------------------------------------------------------------------------
(* properties *)

IsPrefix(s, q) == Len(s) <= Len(q) /\ \A i \in 1..Len(s) : s[i] = q[i]

\* how many times git apply was run on patch p, in all
TimesApplied(p) ==
    Cardinality({i \in 1..Len(cmds) : cmds[i].stage = "patch" /\ cmds[i].name = p})

\* the patches one invocation of _apply_patches ran git apply on
RanOn(run) == {run.ran[i].name : i \in 1..Len(run.ran)}

\* C1: in a run of build() the stages start in the order DependencyBuild,
\* PatchApply, StagePrepare, Configure, Install, each at most once, and a stage
\* starts only when every stage before it has returned without raising.
C1_StageOrder ==
    call = "build" =>
        /\ IsPrefix(started, Stages)
        /\ \A i \in 1..Len(started) : \A j \in 1..(i - 1) : started[j] \in completed

\* a run of build() in which all five stages started
C1_Witness ==
    /\ call = "build"
    /\ started = Stages
    /\ "configure" \in completed

\* C2: when build() returns without error the packaging preparation has run and the
\* archive has been written.
C2_BuildEndsWithArchive ==
    (call = "build" /\ pc = "built") => fs.archive = "fresh"

\* C3: build.py run with its own flags and a supported --target-os constructs the
\* BuildConfig and the builder of that platform and invokes its build().
C3_GenericEntryBuilds ==
    (driver = "main" /\ namespace = GenericFlags /\ target_os \in SupportedOS
        /\ pc = "exit")
    => (cls = ClassFor(target_os, module) /\ started # <<>>)

\* C4: build.py run with an unsupported --target-os fails with the
\* unsupported-configuration error and has changed nothing in the file system.
C4_UnsupportedFailsFast ==
    (driver = "main" /\ target_os \notin SupportedOS /\ pc = "exit")
    => (raised = "ValueError" /\ exitState = "failed" /\ fs = fs0)

C6_FailedCommandAborts ==
    call = "build" =>
        \A i \in 1..Len(cmds) :
            (cmds[i].stage \in {"deps", "configure", "install"} /\ ~cmds[i].ok)
            => /\ i = Len(cmds)
               /\ raised = "CalledProcessError"
               /\ pc \in {"except", "exit"}
               /\ started[Len(started)] = cmds[i].stage
               /\ cmds[i].stage \notin completed

\* the configure script exited non-zero and the run is over
C6_Witness ==
    /\ call = "build"
    /\ pc = "exit"
    /\ Len(cmds) > 0
    /\ cmds[Len(cmds)] = Cmd("configure", "configure", FALSE)
    /\ started = <<"deps", "patch", "prepare", "configure">>

\* C7: after two invocations of _apply_patches in a row every patch was applied at
\* most once in all, and the second invocation ran no command and logged nothing
\* but a warning.
C7_TwiceAppliesOnce ==
    (call = "apply_patches" /\ Len(patchRuns) >= 2)
    => /\ \A p \in PatchNames : TimesApplied(p) <= 1
       /\ patchRuns[2].ran = <<>>
       /\ patchRuns[2].logs \subseteq {SkipWarning, NotFoundWarning}

\* C8 as stated: with the marker absent and the patch directory present, an
\* invocation of _apply_patches runs git apply exactly once on every regular file
\* of the directory.
C8_EveryRegularFile ==
    \A i \in 1..Len(patchRuns) :
        (patchRuns[i].marker = "absent" /\ patchRuns[i].patchDir)
        => /\ RanOn(patchRuns[i]) = {p \in patchRuns[i].files : IsFile(p)}
           /\ Len(patchRuns[i].ran) = Cardinality(RanOn(patchRuns[i]))

\* C8 as amended: with the marker absent and the patch directory present, an
\* invocation runs git apply only on regular files of the directory that the
\* builder's patches list names, each at most once, and on all of them unless one
\* fails; the list is empty for the Linux and Darwin builders and for the MinGW
\* builder of mingw_python_builder.py, and holds the one name
\* cpython_mingw_v<version>.patch for the MinGW builder of python_builder.py.
C8_ListedFilesOnly ==
    \A i \in 1..Len(patchRuns) :
        (patchRuns[i].marker = "absent" /\ patchRuns[i].patchDir)
        => LET run    == patchRuns[i]
               listed == IF cls = "MinGWLegacy"
                         THEN {p \in run.files : IsFile(p) /\ p = ListedPatch}
                         ELSE {}
           IN  /\ RanOn(run) \subseteq listed
               /\ Len(run.ran) = Cardinality(RanOn(run))
               /\ run.raised = "none" => RanOn(run) = listed
               /\ run.raised # "none" => ~run.ran[Len(run.ran)].ok

\* an invocation that left another regular file of the directory unapplied
C8_Witness ==
    \E i \in 1..Len(patchRuns) :
        /\ patchRuns[i].marker = "absent" /\ patchRuns[i].patchDir
        /\ cls = "MinGWLegacy"
        /\ {ListedPatch, "other.patch"} \subseteq patchRuns[i].files
        /\ patchRuns[i].ran = <<Cmd("patch", ListedPatch, TRUE)>>

\* C9: an invocation of _apply_patches that finds the platform's marker file runs
\* no git apply and leaves the source checkout as it was.
C9_MarkerShortCircuits ==
    \A i \in 1..Len(patchRuns) :
        patchRuns[i].marker # "absent"
        => (patchRuns[i].ran = <<>> /\ ~patchRuns[i].changed)

\* the marker made an invocation skip a patch that is listed and present
C9_Witness ==
    \E i \in 1..Len(patchRuns) :
        /\ patchRuns[i].marker # "absent"
        /\ cls = "MinGWLegacy"
        /\ patchRuns[i].patchDir /\ ListedPatch \in patchRuns[i].files
        /\ patchRuns[i].logs = {SkipWarning}

\* C10: when Configure starts, the build directory and the install directory exist
\* and are empty.
C10_ConfigureSeesEmptyDirs ==
    (call = "build" /\ pc = "configure")
    => (fs.build = "empty" /\ fs.install = "empty")

\* the directories of a file system state, the log file left aside
Dirs(f) == [f EXCEPT !.log = FALSE]

\* C11: when a builder that requires a toolchain directory is constructed with the
\* toolchain directory missing, or any builder with the source checkout missing,
\* the construction fails with the missing-artifact error, no external command
\* (the reset of the checkout included) has been run, and the constructor has
\* changed no directory.
C11_MissingArtifactFailsFirst ==
    (/\ driver = "direct"
     /\ pc # "construct"
     /\ \/ world.missing = "source"
        \/ world.missing = "toolchain" /\ ClassFor(target_os, module) # "Darwin")
    => /\ cls = "none"
       /\ raised \in {"ValueError", "FileNotFoundError"}
       /\ cmds = <<>>
       /\ Dirs(fs) = Dirs(fs0)

\* C12: when DependencyBuild of a MinGW builder has run with no libffi archive
\* under third_party/libffi, it has failed with the artifact-not-found error, no
\* command of the stage has been run and no directory under the output path has
\* been created or deleted.
C12_MissingLibffiFailsFirst ==
    (cls \in {"MinGW", "MinGWLegacy"} /\ world.missing = "libffi" /\ started # <<>>)
    => /\ raised = "FileNotFoundError"
       /\ \A i \in 1..Len(cmds) : cmds[i].stage # "deps"
       /\ Dirs(fs) = Dirs(IF driver = "main" THEN EmptyOut ELSE fs0)

\* the keys that must have a non-empty value for the platform of class c
RequiredKeys(c) ==
    {"CC", "CXX", "STRIP", "CFLAGS", "CXXFLAGS", "LDFLAGS", "CPPFLAGS", "LIBS"} \cup
    (IF c \in {"MinGW", "MinGWLegacy"}
     THEN {"RCFLAGS", "WINDRES", "AR", "READELF", "LD", "DLLTOOL", "RANLIB"} ELSE {})

NonEmptyAt(m, keys) == \A k \in keys : k \in DOMAIN m /\ m[k] # <<>>

Overlaid(e) == IF e.by = "configure" THEN DOMAIN EnvUpdate(cls) ELSE DOMAIN DepsUpdate(cls)

\* C14: every composition of an environment, by _env for the configure script or
\* inside a _deps_build, leaves os.environ as it was, and every variable of
\* os.environ that is not one of the overlaid keys is in the composed map with
\* the value it has in os.environ.
C14_AmbientPreserved ==
    \A e \in envs :
        /\ e.after = e.before
        /\ \A k \in DOMAIN e.before \ Overlaid(e) :
               k \in DOMAIN e.env /\ e.env[k] = e.before[k]

\* a _deps_build and _env have both composed an environment from an os.environ
\* that holds a key both overlay (CFLAGS), a key only _env overlays (LIBS) and a
\* key neither overlays (PATH)
C14_Witness ==
    /\ DOMAIN environ = AmbientNames
    /\ \E d \in envs, e \in envs :
         /\ d.by = "deps" /\ e.by = "configure"
         /\ d.env["LIBS"] = environ["LIBS"] /\ e.env["LIBS"] # environ["LIBS"]
         /\ d.env["CFLAGS"] # environ["CFLAGS"]
         /\ e.env["PATH"] = environ["PATH"]

\* every command of the pass of the loop for dylib d was run and exited with 0
FixedUp(d) ==
    \A k \in 1..Len(DylibCmds(d)) :
        \E i \in 1..Len(cmds) :
            cmds[i] = Tool(DylibCmds(d)[k].name, DylibCmds(d)[k].on, TRUE)

\* C15: when _post_build of the Darwin builder has run with a command of the
\* fix-up of one dylib of the library directory exiting non-zero, nothing was
\* raised, the failure of that dylib is in the log, every other dylib of the
\* directory got all the commands of its fix-up, and the archive command was run.
C15_DylibFailureIsolated ==
    (/\ invoked.method = "post_build" /\ cls = "Darwin"
     /\ invoked.bad.on \in Range(invoked.order))
    => /\ raised = "none"
       /\ DylibFailed(invoked.bad.on) \in logs
       /\ \A d \in Range(invoked.order) \ {invoked.bad.on} : FixedUp(d)
       /\ \E i \in 1..Len(cmds) : cmds[i].stage = "package"

\* C16: the archive an archive command is told to write is named
\* python-linux-x86-GLIBC<ver>-<version>.tar.gz by the post-build of the Linux
\* builder when getconf reports the C library version <ver> (2.35), and
\* python-mingw-x86-<version>.tar.gz by a MinGW builder, <version> being the
\* detailed Python version; and the Linux post-build does run that command.
C16_ArchiveNames ==
    /\ \A i \in 1..Len(cmds) :
          cmds[i].stage = "package"
          => cmds[i].archive =
                IF cls = "Linux"
                THEN <<"python-linux-x86-GLIBC", invoked.getconf.stdout, "-",
                       DetailedVersion, ".tar.gz">>
                ELSE <<"python-mingw-x86-", DetailedVersion, ".tar.gz">>
    /\ (invoked.method = "post_build" /\ cls = "Linux" /\ invoked.getconf.stdout # "")
       => \E i \in 1..Len(cmds) : cmds[i].stage = "package"

\* C17: when the external-library copy step of prepare_for_package has run, every
\* listed library whose source file is missing has its warning in the log, a
\* failed copy has its error in the log, and every other listed library whose
\* source file exists has been copied; the step has raised nothing.
C17_LibrariesIndependent ==
    (invoked.method = "prepare_for_package" /\ invoked.raised = "none")
    => /\ \A lib \in Range(ExternalLibs) \ invoked.exist : DoesNotExist(lib) \in invoked.logs
       /\ invoked.badCopy \in invoked.exist => CopyError \in invoked.logs
       /\ invoked.copied = {lib \in invoked.exist : lib # invoked.badCopy}

\* C18: when _clean_bin_dir has run with the strip of one file exiting non-zero,
\* the failure is in the log, every other entry of the bin directory has been
\* processed (stripped, or removed if it is not a Windows binary), and
\* prepare_for_package has not been aborted.
C18_StripFailureIsolated ==
    (invoked.method = "prepare_for_package" /\ invoked.bad \in Range(invoked.order))
    => /\ CommandFailed \in invoked.logs
       /\ \A n \in Range(invoked.order) :
              IF Unlinks(n) THEN n \in invoked.unlinked
              ELSE \E i \in 1..Len(cmds) : cmds[i].stage = "strip" /\ cmds[i].on = n
       /\ invoked.raised = "none"

Modifies(c, b) ==
    /\ c.stage = "fixup" /\ c.ok /\ c.on = b
    /\ c.name \in {"install_name_tool -id", "install_name_tool -change"}

C21_PrunedTree ==
    (invoked.method = "prepare_for_package" /\ invoked.raised = "none")
    => /\ ~IsDir(invoked.tree, <<<<"share">>>>)
       /\ ~IsDir(invoked.tree, <<<<"lib">>, <<"pkgconfig">>>>)
       /\ \A n \in invoked.tree :
              (Len(n.path) > 1 /\ n.path[1] = <<"lib">>)
              => IF n.kind = "dir" THEN ~DirExcluded(n.path[Len(n.path)])
                                   ELSE ~FileExcluded(n.path[Len(n.path)])

\* the pruning ran on a tree that held every node it may hold, and left the
\* directories and the file no denylist names
C21_Witness ==
    /\ invoked.method = "prepare_for_package" /\ invoked.raised = "none"
    /\ invoked.tree0 = BareTree \cup OptionalNodes
    /\ invoked.tree = BareTree \cup {[path |-> PyLib \o <<<<"os", ".py">>>>, kind |-> "file"],
                                    [path |-> PyLib \o <<<<"json">>>>, kind |-> "dir"]}

----------------------------------------------------------------------------
(* two runs on one output path *)

\* Nothing in build.py or in the builders takes a lock, writes a pid file or tests
\* for another process: each run is a sequence of file system calls and external
\* commands, and the calls of two runs interleave freely.
Runs == {"A", "B"}

\* the output path and the directories below it that a run deletes
SharedDirs == {"out", "libffi", "build", "install"}

\* a directory: who made it ("nobody": it is not there, "earlier": a run that has
\* ended) and whether anything has been written into it
Gone == [by |-> "nobody", state |-> "absent"]

Exists(d) == shared[d].state # "absent"

\* Path.mkdir(parents=True) of d by run r: the output path is made with it
mkdir(r, d) ==
    [x \in SharedDirs |->
        IF x = d \/ (x = "out" /\ ~Exists("out"))
        THEN [by |-> r, state |-> "empty"] ELSE shared[x]]

\* files written into d by run r: the directory is made if it is not there, and
\* stays the directory of who made it if it is
Written(r, d) ==
    [mkdir(r, d) EXCEPT ![d] = [by |-> IF Exists(d) THEN shared[d].by ELSE r,
                                state |-> "full"]]

\* the directories a run at position p works in, at p or later: out/build.log of the
\* FileHandler, cwd=libffi_inner_dir of the three commands of _deps_build,
\* cwd=self._build_dir of _configure and _install
NeededFrom(p) ==
    CASE p = "construct"                                            -> {"out"}
      [] p \in {"libffi_configure", "libffi_make", "libffi_install"} -> {"libffi"}
      [] p \in {"install_mkdir", "configure", "install"}             -> {"build"}
      [] OTHER                                                       -> {}

\* the directories run r has made and still works in
Needs(r) == runs[r].made \cap NeededFrom(runs[r].pc)

\* shutil.rmtree with a test for the directories another run still works in
Removed_unless_needed(r, D) ==
    [x \in SharedDirs |->
        IF x \in D \ UNION {Needs(o) : o \in Runs \ {r}} THEN Gone ELSE shared[x]]

\* shutil.rmtree by run r: the directories D are gone, whoever made them
Removed(r, D) ==
    [x \in SharedDirs |-> IF x \in D THEN Gone ELSE shared[x]]

\* the runs build.py starts (with its own flags or with flags BuildConfig accepts),
\* and the runs of a caller that constructs a builder itself
RunKinds ==
    {[driver |-> "main", cls |-> ClassFor(t, "mingw_python_builder"), flags |-> n] :
        t \in SupportedOS, n \in {GenericFlags, SpecializedFlags}}
    \cup {[driver |-> "direct", cls |-> c, flags |-> SpecializedFlags] : c \in Classes}

InitConcurrent ==
    /\ runs \in [Runs -> {[driver |-> k.driver, cls |-> k.cls, flags |-> k.flags,
                            pc |-> IF k.driver = "main" THEN "config" ELSE "construct",
                            raised |-> "none", failedAt |-> "none", made |-> {}] :
                               k \in RunKinds}]
    \* the output path before the runs start: missing, empty, or as an earlier run left it
    /\ shared \in {[d \in SharedDirs |-> Gone],
                   [d \in SharedDirs |-> IF d = "out" THEN [by |-> "earlier", state |-> "full"]
                                                      ELSE Gone],
                   [d \in SharedDirs |-> [by |-> "earlier", state |-> "full"]]}
    /\ removals = {}
    /\ driver = "direct"
    /\ namespace = SpecializedFlags
    /\ target_os = "mingw"
    /\ module = "python_builder"
    /\ call = "build"
    /\ world = [missing |-> "none", patchAddsMarker |-> FALSE]
    /\ cls = "none"
    /\ pc = "exit"
    /\ raised = "none"
    /\ exitState = "running"
    /\ fs = NoDirs
    /\ fs0 = NoDirs
    /\ environ \in {CHOOSE e \in Ambients : TRUE}
    /\ envs = {}
    /\ invoked = [method |-> "none"]
    /\ src = NoSource
    /\ cmds = <<>>
    /\ logs = {}
    /\ started = <<>>
    /\ completed = {}
    /\ patchRuns = <<>>

\* the variables of the single run
single == <<driver, namespace, target_os, module, call, world, cls, pc, raised,
            exitState, fs, fs0, src, cmds, logs, started, completed, patchRuns,
            environ, envs, invoked>>

\* run r goes on to position p, having made the directories D
Goes(r, p, D) == runs' = [runs EXCEPT ![r].pc = p, ![r].made = @ \cup D]

\* an exception ends run r: it is caught at build.py:59 or leaves the process
Raises(r, ex) ==
    runs' = [runs EXCEPT ![r].pc = "exit", ![r].raised = ex, ![r].failedAt = runs[r].pc]

\* the record of one shutil.rmtree: the directories of D some run had made, and
\* whether that run still works in them
Removal(r, site, D) ==
    {[by |-> r, site |-> site, dir |-> d, of |-> shared[d].by,
      needed |-> d \in Needs(shared[d].by)] :
        d \in {x \in D : shared[x].by \in Runs}}

\* if path.exists(): the test before a shutil.rmtree
Tests(r, applies, d, thenPc, elsePc) ==
    /\ Goes(r, IF applies /\ Exists(d) THEN thenPc ELSE elsePc, {})
    /\ UNCHANGED <<shared, removals, single>>

\* shutil.rmtree(path) of the directories D below path; FileNotFoundError if
\* path has gone since the test
Rmtree(r, site, d, D, nextPc) ==
    /\ IF Exists(d)
       THEN /\ shared' = Removed(r, D)
            /\ removals' = removals \cup Removal(r, site, D)
            /\ Goes(r, nextPc, {})
       ELSE /\ Raises(r, "FileNotFoundError")
            /\ UNCHANGED <<shared, removals>>
    /\ UNCHANGED single

\* path.mkdir(parents=True) where the attribute is set; FileExistsError if the
\* directory is there
Mkdir(r, applies, d, nextPc) ==
    /\ IF ~applies
       THEN Goes(r, nextPc, {}) /\ UNCHANGED shared
       ELSE IF Exists(d)
       THEN Raises(r, "FileExistsError") /\ UNCHANGED shared
       ELSE /\ shared' = mkdir(r, d)
            /\ Goes(r, nextPc, {d} \cup (IF Exists("out") THEN {} ELSE {"out"}))
    /\ UNCHANGED <<removals, single>>

\* an external command run with cwd=d that writes into the directory w:
\* subprocess.run raises FileNotFoundError if cwd is missing; in a directory
\* another run has made the command may exit with either status (libffi_inner_dir
\* is the first member of the archive extracted into out/libffi)
Command(r, d, w, nextPc) ==
    /\ IF (IF d = "libffi" THEN shared[d].state # "full" ELSE ~Exists(d))
       THEN Raises(r, "FileNotFoundError") /\ UNCHANGED shared
       ELSE \E ok \in (IF shared[d].by = r THEN {TRUE} ELSE BOOLEAN) :
               IF ok THEN Goes(r, nextPc, {}) /\ shared' = Written(r, w)
                     ELSE Raises(r, "CalledProcessError") /\ UNCHANGED shared
    /\ UNCHANGED <<removals, single>>

\* build.py:37
c_BuildConfig(r) ==
    /\ runs[r].pc = "config"
    /\ IF BuildConfig(runs[r].flags) = "none"
       THEN Goes(r, "reset_exists", {})
       ELSE Raises(r, BuildConfig(runs[r].flags))
    /\ UNCHANGED <<shared, removals, single>>

\* build.py:41
c_ResetExists(r) ==
    /\ runs[r].pc = "reset_exists"
    /\ Tests(r, TRUE, "out", "reset_rmtree", "reset_mkdir")

\* build.py:42
c_ResetRmtree(r) ==
    /\ runs[r].pc = "reset_rmtree"
    /\ Rmtree(r, "Reset", "out", SharedDirs, "reset_mkdir")

\* build.py:43: out_path.mkdir(parents=True, exist_ok=True)
c_ResetMkdir(r) ==
    /\ runs[r].pc = "reset_mkdir"
    /\ IF Exists("out")
       THEN Goes(r, "construct", {}) /\ UNCHANGED shared
       ELSE shared' = mkdir(r, "out") /\ Goes(r, "construct", {"out"})
    /\ UNCHANGED <<removals, single>>

\* the constructor: logging.FileHandler(self._out_dir / 'build.log') opens the file
c_Construct(r) ==
    /\ runs[r].pc = "construct"
    /\ IF Exists("out")
       THEN Goes(r, "deps", {}) /\ shared' = Written(r, "out")
       ELSE Raises(r, "FileNotFoundError") /\ UNCHANGED shared
    /\ UNCHANGED <<removals, single>>

\* _deps_build up to the first file system call below the output path
c_DepsBuild(r) ==
    /\ runs[r].pc = "deps"
    /\ CASE runs[r].cls = "Linux" -> Goes(r, "build_exists", {})
         [] runs[r].cls = "Darwin" /\ ~HasDepsDir(runs[r].cls) -> Raises(r, "AttributeError")
         [] runs[r].cls \in {"MinGW", "MinGWLegacy"} /\ ~HasExtractLibffi(runs[r].cls) ->
              Raises(r, "AttributeError")
         [] OTHER -> Goes(r, "libffi_exists", {})
    /\ UNCHANGED <<shared, removals, single>>

\* python_builder.py:337
c_LibffiExists(r) ==
    /\ runs[r].pc = "libffi_exists"
    /\ Tests(r, TRUE, "libffi", "libffi_rmtree", "libffi_mkdir")

\* python_builder.py:339
c_LibffiRmtree(r) ==
    /\ runs[r].pc = "libffi_rmtree"
    /\ Rmtree(r, "libffi cleanup", "libffi", {"libffi"}, "libffi_mkdir")

\* python_builder.py:340
c_LibffiMkdir(r) ==
    /\ runs[r].pc = "libffi_mkdir"
    /\ Mkdir(r, TRUE, "libffi", "extract")

\* python_builder.py:343-344: tar.extractall makes the directories that are missing
c_Extract(r) ==
    /\ runs[r].pc = "extract"
    /\ shared' = Written(r, "libffi")
    /\ Goes(r, "libffi_configure",
                (IF Exists("libffi") THEN {} ELSE {"libffi"})
                \cup (IF Exists("out") THEN {} ELSE {"out"}))
    /\ UNCHANGED <<removals, single>>

\* python_builder.py:411, 415, 419: ./configure, make, make install of libffi
c_LibffiCommand(r) ==
    \/ runs[r].pc = "libffi_configure" /\ Command(r, "libffi", "libffi", "libffi_make")
    \/ runs[r].pc = "libffi_make" /\ Command(r, "libffi", "libffi", "libffi_install")
    \/ runs[r].pc = "libffi_install" /\ Command(r, "libffi", "libffi", "build_exists")

\* python_builder.py:175
c_BuildExists(r) ==
    /\ runs[r].pc = "build_exists"
    /\ Tests(r, HasBuildDir(runs[r].cls), "build", "build_rmtree", "install_exists")

\* python_builder.py:177
c_BuildRmtree(r) ==
    /\ runs[r].pc = "build_rmtree"
    /\ Rmtree(r, "StagePrepare", "build", {"build"}, "install_exists")

\* python_builder.py:178
c_InstallExists(r) ==
    /\ runs[r].pc = "install_exists"
    /\ Tests(r, InstallDirIsPath(runs[r].cls), "install", "install_rmtree", "build_mkdir")

\* python_builder.py:180
c_InstallRmtree(r) ==
    /\ runs[r].pc = "install_rmtree"
    /\ Rmtree(r, "StagePrepare", "install", {"install"}, "build_mkdir")

\* python_builder.py:181-182
c_BuildMkdir(r) ==
    /\ runs[r].pc = "build_mkdir"
    /\ Mkdir(r, HasBuildDir(runs[r].cls), "build", "install_mkdir")

\* python_builder.py:183-184
c_InstallMkdir(r) ==
    /\ runs[r].pc = "install_mkdir"
    /\ Mkdir(r, InstallDirIsPath(runs[r].cls), "install", "configure")

\* _configure: the builders without _build_dir raise AttributeError; the configure
\* script of python_builder.MinGWPythonBuilder runs with cwd=self._build_dir
c_Configure(r) ==
    /\ runs[r].pc = "configure"
    /\ IF HasBuildDir(runs[r].cls) /\ ~EnvRaises(runs[r].cls)
       THEN Command(r, "build", "build", "install")
       ELSE Raises(r, "AttributeError") /\ UNCHANGED <<shared, removals, single>>

\* _install: make install with cwd=self._build_dir writes the install directory
c_Install(r) ==
    /\ runs[r].pc = "install"
    /\ Command(r, "build", "install", "built")

NextConcurrent ==
    \E r \in Runs :
        \/ c_BuildConfig(r)
        \/ c_ResetExists(r)
        \/ c_ResetRmtree(r)
        \/ c_ResetMkdir(r)
        \/ c_Construct(r)
        \/ c_DepsBuild(r)
        \/ c_LibffiExists(r)
        \/ c_LibffiRmtree(r)
        \/ c_LibffiMkdir(r)
        \/ c_Extract(r)
        \/ c_LibffiCommand(r)
        \/ c_BuildExists(r)
        \/ c_BuildRmtree(r)
        \/ c_InstallExists(r)
        \/ c_InstallRmtree(r)
        \/ c_BuildMkdir(r)
        \/ c_InstallMkdir(r)
        \/ c_Configure(r)
        \/ c_Install(r)

SpecConcurrent == InitConcurrent /\ [][NextConcurrent]_vars

\* the directories a run removes at each of its shutil.rmtree calls: Reset
\* (build.py:42), the libffi cleanup (python_builder.py:339) and StagePrepare
\* (python_builder.py:177 and 180)
RemovedAt(p) ==
    CASE p = "reset_rmtree"   -> SharedDirs
      [] p = "libffi_rmtree"  -> {"libffi"}
      [] p = "build_rmtree"   -> {"build"}
      [] p = "install_rmtree" -> {"install"}
      [] OTHER                -> {}

DeletionSites == {"Reset", "libffi cleanup", "StagePrepare"}

\* a directory a run made and still works in is no longer its own only after
\* another run removed it at one of the deletion sites
LossesAreRemovals ==
    \A v \in Runs : \A d \in Needs(v) :
        shared[d].by # v
        => \E x \in removals : x.dir = d /\ x.of = v /\ x.by # v /\ x.site \in DeletionSites

\* C22: nothing guards the deletions of two runs on the same output path. Whenever
\* a run gets past one of its rmtree calls (in Reset, in the libffi cleanup, in
\* StagePrepare), the directories it names are gone, whether or not the other run
\* made them and still works in them; and a run loses a directory it made and
\* still works in only through such a call of the other run.
C22_NoLockBetweenRuns ==
    [][/\ \A r \in Runs :
             (runs'[r].pc # runs[r].pc /\ runs'[r].raised = "none")
             => \A d \in RemovedAt(runs[r].pc) : shared'[d] = Gone
       /\ LossesAreRemovals']_vars

\* run A made the libffi directory and the build directory; run B removed the first
\* in its libffi cleanup and the second in its StagePrepare, each while A still
\* worked in it, and A's configure failed for want of its working directory
C22_Witness ==
    /\ runs["A"].driver = "direct" /\ runs["B"].driver = "direct"
    /\ {"libffi", "build"} \subseteq runs["A"].made
    /\ runs["A"].raised = "FileNotFoundError" /\ runs["A"].failedAt = "configure"
    /\ \E x \in removals :
          x.by = "B" /\ x.of = "A" /\ x.dir = "libffi" /\ x.site = "libffi cleanup" /\ x.needed
    /\ \E x \in removals :
          x.by = "B" /\ x.of = "A" /\ x.dir = "build" /\ x.site = "StagePrepare" /\ x.needed

====
